---- MODULE Spec2Model ----
(***************************************************************************)
(* State-machine model of the URL shortener in src/src/server.js.          *)
(*                                                                         *)
(* Every pool.query is one atomic statement of the storage layer.  A       *)
(* handler runs synchronously between two awaits, so one action is "the    *)
(* statement the handler awaits executes and the handler continues up to   *)
(* its next await or to its response".  Requests are served by a bounded   *)
(* number of handler activations (Procs), which run interleaved.           *)
(*                                                                         *)
(* Strings that the code inspects character by character (codes, path      *)
(* segments) are sequences of one-character strings.  URLs are opaque      *)
(* strings: the only thing the code does with them is the is-url test.     *)
(* A request body is the object express.json() parsed; its url and code    *)
(* are undefined or strings.                                               *)
(*                                                                         *)
(* The table is persistent: a behaviour starts from a table holding links  *)
(* of earlier runs, and its clients send requests of one workload.         *)
(*                                                                         *)
(* Spec  is the service after initDb returned, on a storage layer whose    *)
(*       statements succeed (but for the constraints of the table);        *)
(* SpecF adds statements that fail; SpecL adds to SpecF that an awaited    *)
(*       statement eventually returns or fails;                            *)
(* SpecB is SpecF from the start of the process, initDb still pending.     *)
(***************************************************************************)
EXTENDS Integers, Sequences, FiniteSets, TLC

(* ------------------------------ bounds --------------------------------- *)
NumProcs == 2      \* handler activations that can be in flight at once
MaxReqs  == 2      \* requests received in one behaviour
MaxClock == 1      \* values NOW() takes after the initial one

MaxAttempts == 10  \* iterations of the generation loop

Procs == 1..NumProcs

(* --------------------------- JS values --------------------------------- *)
JsUndefined == [t |-> "undefined"]
JsStr(s)    == [t |-> "string", s |-> s]

\* JS truthiness of a value that is undefined or a string of characters
TruthyCode(v) == v.t = "string" /\ v.s # <<>>
\* JS truthiness of a value that is undefined or an opaque URL string
TruthyUrl(v)  == v.t = "string" /\ v.s # ""

NULL == 0 - 1      \* SQL NULL in an integer (timestamp) column

(* ----------------------------- alphabet -------------------------------- *)
chars ==
  << "A","B","C","D","E","F","G","H","I","J","K","L","M",
     "N","O","P","Q","R","S","T","U","V","W","X","Y","Z",
     "a","b","c","d","e","f","g","h","i","j","k","l","m",
     "n","o","p","q","r","s","t","u","v","w","x","y","z",
     "0","1","2","3","4","5","6","7","8","9" >>

Alnum == { chars[k] : k \in 1..Len(chars) }

\* the test with the quantifier {3,8}
CodeRegexTest_Min3(s) ==
  /\ Len(s) >= 3
  /\ Len(s) <= 8
  /\ \A k \in 1..Len(s) : s[k] \in Alnum

\* the test with the quantifier {6,}
CodeRegexTest_NoMax(s) ==
  /\ Len(s) >= 6
  /\ \A k \in 1..Len(s) : s[k] \in Alnum

\* the test with the quantifier {6,7}
CodeRegexTest_6to7(s) ==
  /\ Len(s) >= 6
  /\ Len(s) <= 7
  /\ \A k \in 1..Len(s) : s[k] \in Alnum

\* /^[A-Za-z0-9]{6,8}$/.test(s)
CodeRegexTest(s) ==
  /\ Len(s) >= 6
  /\ Len(s) <= 8
  /\ \A k \in 1..Len(s) : s[k] \in Alnum

\* the generator with its loop one iteration short
generateCode_OneShort(rnd) == [ k \in 1..(Len(rnd) - 1) |-> chars[rnd[k] + 1] ]

\* generateCode(len): rnd[k] is Math.floor(Math.random() * chars.length)
\* of the k-th loop iteration (0-based index into chars)
generateCode(rnd) == [ k \in 1..Len(rnd) |-> chars[rnd[k] + 1] ]

\* the random draws explored: they spell "abc123" and "health"
RandomDraws == { <<26,27,28,53,54,55>>, <<33,30,26,37,45,33>> }

(* ------------------------- strings used as inputs ---------------------- *)
abc123    == <<"a","b","c","1","2","3">>
health    == <<"h","e","a","l","t","h">>
api       == <<"a","p","i">>
stats     == <<"s","t","a","t","s">>
links     == <<"l","i","n","k","s">>
zzzzzz    == <<"z","z","z","z","z","z">>
abc12     == <<"a","b","c","1","2">>
abcdefgh9 == <<"a","b","c","d","e","f","g","h","9">>
abc_12    == <<"a","b","c","-","1","2">>
abcd1234  == <<"a","b","c","d","1","2","3","4">>

UrlX == "https://x.com"
UrlY == "https://y.com"

\* is-url applied to the URL values explored
isUrl(v) == v.t = "string" /\ v.s \in {UrlX, UrlY}

\* !url || !isUrl(url), with the is-url test forgotten
UrlInvalid_NoIsUrl(url) == ~TruthyUrl(url)

\* !url || !isUrl(url)
UrlInvalid(url) == ~TruthyUrl(url) \/ ~isUrl(url)

\* code === "api" || code === "stats" || code === "health"
Reserved(code) == code = <<"a","p","i">> \/ code = <<"s","t","a","t","s">>
                    \/ code = <<"h","e","a","l","t","h">>

UrlInputs  == { JsUndefined, JsStr(""), JsStr("not a url"), JsStr(UrlX), JsStr(UrlY) }
CodeInputs == { JsUndefined, JsStr(<<>>), JsStr(abc123), JsStr(abcd1234),
                JsStr(abc12), JsStr(abcdefgh9), JsStr(abc_12) }

NoBody  == [url |-> JsUndefined, code |-> JsUndefined]
NoQuery == [search |-> JsUndefined]
NoReq   == [method |-> "NONE", path |-> <<>>, body |-> NoBody, query |-> NoQuery]

Post(u, c) ==
  [method |-> "POST", path |-> <<api, links>>, body |-> [url |-> u, code |-> c],
   query |-> NoQuery]
Delete(c)  ==
  [method |-> "DELETE", path |-> <<api, links, c>>, body |-> NoBody, query |-> NoQuery]
GetStats(c) == [method |-> "GET", path |-> <<stats, c>>, body |-> NoBody, query |-> NoQuery]
Get(c)     == [method |-> "GET", path |-> <<c>>, body |-> NoBody, query |-> NoQuery]
\* GET /api/links?search=f (f undefined: no search parameter)
GetList(f) ==
  [method |-> "GET", path |-> <<api, links>>, body |-> NoBody, query |-> [search |-> f]]

\* filter strings
abc_upper == <<"A","B","C">>
y_dot_c   == <<"y",".","c">>
a_any_c   == <<"a","_","c">>
percent   == <<"%">>

SearchInputs ==
  { JsUndefined, JsStr(<<>>), JsStr(abc_upper), JsStr(y_dot_c), JsStr(a_any_c),
    JsStr(percent) }

\* The requests the clients of one behaviour send are drawn from one workload.
\* creators whose URL fails validation, next to one whose request passes
WBadUrl ==
  { Post(u, c) : u \in {JsUndefined, JsStr(""), JsStr("not a url")}, c \in CodeInputs }
    \cup { Post(JsStr(UrlX), JsStr(abc123)) }
\* creators whose custom code fails validation, next to one whose request passes
WBadCode ==
  { Post(u, JsStr(c)) : u \in {JsStr(UrlX), JsStr(UrlY)}, c \in {abc12, abcdefgh9, abc_12} }
    \cup { Post(JsStr(UrlX), JsStr(abc123)) }
\* creators with a custom code, and a deleter of one of the codes
WCustom ==
  { Post(JsStr(u), JsStr(c)) : u \in {UrlX, UrlY}, c \in {abc123, abcd1234} }
    \cup { Delete(abc123) }
\* creators without a custom code
WGenerated ==
  { Post(JsStr(UrlX), JsUndefined) }
\* creators with the empty string as custom code, next to one with a custom code
WEmptyCode ==
  { Post(JsStr(UrlX), JsStr(<<>>)), Post(JsStr(UrlX), JsStr(abc123)) }
\* visitors of one link
WVisitors ==
  { Post(JsStr(UrlX), JsStr(abc123)), Post(JsStr(UrlY), JsStr(abc123)),
    Get(abc123), Get(zzzzzz), Delete(abc123), GetStats(abc123) }
\* users of the reserved words
WReserved ==
  { Post(JsStr(UrlX), JsStr(health)), Post(JsStr(UrlX), JsStr(api)),
    Post(JsStr(UrlX), JsStr(stats)), Get(health), Get(api), Get(stats),
    Delete(health), GetStats(health) }

\* readers of the list, next to a creator
WList ==
  { GetList(f) : f \in SearchInputs } \cup { Post(JsStr(UrlY), JsStr(abcd1234)) }

Workloads ==
  { WBadUrl, WBadCode, WCustom, WGenerated, WEmptyCode, WVisitors, WReserved, WList }

(* ------------------------------ routing -------------------------------- *)
\* the router with GET /:code registered before GET /health
Route_RedirectFirst(method, path) ==
  IF method = "GET" /\ path = <<>> THEN "dashboard"
  ELSE IF method = "GET" /\ Len(path) = 2 /\ path[1] = api /\ path[2] = links THEN "list"
  ELSE IF method = "POST" /\ Len(path) = 2 /\ path[1] = api /\ path[2] = links THEN "create"
  ELSE IF method = "DELETE" /\ Len(path) = 3 /\ path[1] = api /\ path[2] = links THEN "delete"
  ELSE IF method = "GET" /\ Len(path) = 2 /\ path[1] = stats THEN "stats"
  ELSE IF method = "GET" /\ Len(path) = 1 THEN "redirect"
  ELSE IF method = "GET" /\ Len(path) = 1 /\ path[1] = health THEN "health"
  ELSE "none"

\* The router tries its routes in registration order; the first whose
\* method and path pattern match handles the request.
Route(method, path) ==
  IF method = "GET" /\ path = <<>> THEN "dashboard"
  ELSE IF method = "GET" /\ Len(path) = 2 /\ path[1] = api /\ path[2] = links THEN "list"
  ELSE IF method = "POST" /\ Len(path) = 2 /\ path[1] = api /\ path[2] = links THEN "create"
  ELSE IF method = "DELETE" /\ Len(path) = 3 /\ path[1] = api /\ path[2] = links THEN "delete"
  ELSE IF method = "GET" /\ Len(path) = 2 /\ path[1] = stats THEN "stats"
  ELSE IF method = "GET" /\ Len(path) = 1 /\ path[1] = health THEN "health"
  ELSE IF method = "GET" /\ Len(path) = 1 THEN "redirect"
  ELSE "none"

(* ------------------------------ storage -------------------------------- *)
\* A row of table links
Row(id, c, u, n, lc, ca) ==
  [id |-> id, code |-> c, url |-> u, clicks |-> n, last_clicked |-> lc, created_at |-> ca]

\* SELECT ... FROM links WHERE code = $1
SelectByCode(s, c) == { r \in s : r.code = c }

\* the column without its UNIQUE constraint
UniqueOk_NoConstraint(s, c) == Len(c) <= 8

\* code VARCHAR(8) UNIQUE NOT NULL: may a row with code c be added to s
UniqueOk(s, c) == Len(c) <= 8 /\ \A r \in s : r.code # c

\* the INSERT storing the link as clicked once at its creation
InsertRow_Clicked(s, id, c, u, now) == s \cup { Row(id, c, u, 1, now, now) }

\* INSERT INTO links (code, url, clicks, last_clicked) VALUES ($1, $2, 0, null)
InsertRow(s, id, c, u, now) == s \cup { Row(id, c, u, 0, NULL, now) }

\* the DELETE without its WHERE clause
DeleteByCode_All(s, c) == {}

\* DELETE FROM links WHERE code = $1
DeleteByCode(s, c) == { r \in s : r.code # c }

\* the UPDATE counting a click twice
UpdateClicks_Twice(s, c, now) ==
  { IF r.code = c THEN [r EXCEPT !.clicks = @ + 2, !.last_clicked = now] ELSE r : r \in s }

\* the UPDATE without its WHERE clause
UpdateClicks_NoWhere(s, c, now) ==
  { [r EXCEPT !.clicks = @ + 1, !.last_clicked = now] : r \in s }

\* the UPDATE writing a fixed count instead of an increment
UpdateClicks_SetOne(s, c, now) ==
  { IF r.code = c THEN [r EXCEPT !.clicks = 1, !.last_clicked = now] ELSE r : r \in s }

\* the UPDATE without the last_clicked assignment
UpdateClicks_NoStamp(s, c, now) ==
  { IF r.code = c THEN [r EXCEPT !.clicks = @ + 1] ELSE r : r \in s }

\* UPDATE links SET clicks = clicks + 1, last_clicked = NOW() WHERE code = $1
UpdateClicks(s, c, now) ==
  { IF r.code = c THEN [r EXCEPT !.clicks = @ + 1, !.last_clicked = now] ELSE r : r \in s }

\* the text of a URL value, character by character
UrlText(u) ==
  IF u = "https://x.com" THEN <<"h","t","t","p","s",":","/","/","x",".","c","o","m">>
  ELSE IF u = "https://y.com" THEN <<"h","t","t","p","s",":","/","/","y",".","c","o","m">>
  ELSE << >>

\* lower case of a character (ILIKE compares without regard to case)
Lower(c) ==
  IF \E k \in 1..26 : chars[k] = c
  THEN chars[(CHOOSE k \in 1..26 : chars[k] = c) + 26]
  ELSE c

\* str ILIKE pat: % matches any sequence of characters, _ any one
\* character, any other character itself without regard to case (patterns
\* explored hold no backslash, the escape character)
RECURSIVE LikeMatch(_, _)
LikeMatch(pat, str) ==
  IF pat = << >> THEN str = << >>
  ELSE IF pat[1] = "%"
  THEN \/ LikeMatch(Tail(pat), str)
       \/ str # << >> /\ LikeMatch(pat, Tail(str))
  ELSE IF pat[1] = "_"
  THEN str # << >> /\ LikeMatch(Tail(pat), Tail(str))
  ELSE /\ str # << >>
       /\ Lower(pat[1]) = Lower(str[1])
       /\ LikeMatch(Tail(pat), Tail(str))

\* the columns the list selects
Columns(r) ==
  [code |-> r.code, url |-> r.url, clicks |-> r.clicks,
   last_clicked |-> r.last_clicked, created_at |-> r.created_at]

\* ... ORDER BY created_at DESC: the orders a result set can be returned in
\* (rows of equal created_at come in any order)
OrderByCreatedDesc(rs) ==
  { sq \in [1..Cardinality(rs) -> rs] :
      /\ \A i \in 1..Cardinality(rs) : \A j \in 1..Cardinality(rs) :
            (i < j) => (sq[i] # sq[j] /\ sq[i].created_at >= sq[j].created_at) }

\* SELECT code, url, clicks, last_clicked, created_at FROM links
\*   [WHERE code ILIKE $1 OR url ILIKE $1] ORDER BY created_at DESC
\* params is << >> or << pattern >>
SelectList(s, params) ==
  LET hits == IF params = << >> THEN s
              ELSE { r \in s : \/ LikeMatch(params[1], r.code)
                                \/ LikeMatch(params[1], UrlText(r.url)) }
  IN { [k \in 1..Len(sq) |-> Columns(sq[k])] : sq \in OrderByCreatedDesc(hits) }

(* ------------------------------- state --------------------------------- *)
VARIABLES
  workload,  \* the requests the clients send
  store,     \* rows of table links
  nextId,    \* next value of the SERIAL sequence of links.id
  clock,     \* value of NOW() when it was read last
  pc,        \* per activation: idle, the statement it awaits, or done
  req,       \* per activation: the request it serves or served last
  local,     \* per activation: the handler's local variables
  resp,      \* per activation: HTTP status sent (0: none yet)
  loc,       \* per activation: target of res.redirect ("" : none)
  nreq,      \* requests received so far
  sent,      \* per activation: rows sent by res.json(rows) (list), else << >>
  boot,      \* startup: initDb's statement pending (on a table of an earlier
             \* run) or pending_new (no table yet), ready (it returned), exited
  threw,     \* history: per activation, the response came from the catch block
  readId,    \* history: id of the row the redirect's SELECT returned (0: none),
             \* kept when a later statement of the redirect threw
  quiet,     \* history: a create, and no other request in flight or received since its reception
  served,    \* history: per code never deleted, redirects answered 302
  deleted    \* history: per code, some DELETE removed a row

vars == << workload, store, nextId, clock, pc, req, local, resp, loc, nreq,
           sent, boot, threw, readId, quiet, served, deleted >>

\* codes a stored row can have in this model
StoredCodes == { abc123, abcd1234, health }

\* local variables of a handler: url, customCode (create), code (all),
\* i (generation loop), rows (redirect: rows[0].url)
\* and params (list), which the other handlers leave empty
Locals(u, cc, c, i, rw) ==
  [url |-> u, customCode |-> cc, code |-> c, i |-> i, rows |-> rw, params |-> << >>]
NoLocals == Locals(JsUndefined, JsUndefined, <<>>, 0, "")

\* The table outlives the process: at startup it holds the links of earlier
\* runs.  Explored: no link, or unclicked links created at time 0.
InitialStores ==
  SUBSET { Row(1, abc123, UrlX, 0, NULL, 0), Row(2, health, UrlX, 0, NULL, 0) }

\* The service once initDb has returned.
Init ==
  /\ workload \in Workloads
  /\ store \in InitialStores
  /\ nextId = 3
  /\ clock = 0
  /\ pc = [p \in Procs |-> "idle"]
  /\ req = [p \in Procs |-> NoReq]
  /\ local = [p \in Procs |-> NoLocals]
  /\ resp = [p \in Procs |-> 0]
  /\ loc = [p \in Procs |-> ""]
  /\ nreq = 0
  /\ sent = [p \in Procs |-> << >>]
  /\ boot = "ready"
  /\ threw = [p \in Procs |-> FALSE]
  /\ readId = [p \in Procs |-> 0]
  /\ quiet = [p \in Procs |-> FALSE]
  /\ served = [c \in StoredCodes |-> 0]
  /\ deleted = [c \in StoredCodes |-> FALSE]

\* the catch block answering a unique violation as a conflict
CatchStatus_Conflict(err) == IF err = "unique_violation" THEN 409 ELSE 500

\* catch (err) { ... res.status(500) }: every thrown error is answered alike
CatchStatus(err) == 500

(* ------------------------- request reception --------------------------- *)
\* activations that serve no request
Free == { q \in Procs : pc[q] \in {"idle", "done"} }

\* Express hands request r to handler h in a free activation p (activations
\* are interchangeable: the free one of lowest number is taken)
Receive(p, r, h) ==
  /\ nreq < MaxReqs
  /\ p \in Free
  /\ \A q \in Free : p <= q
  /\ Route(r.method, r.path) = h
  /\ req' = [req EXCEPT ![p] = r]
  /\ nreq' = nreq + 1
  /\ quiet' = [q \in Procs |->
                 q = p /\ h = "create" /\ \A o \in Procs \ {p} : pc[o] \in {"idle", "done"}]
  /\ UNCHANGED << workload, store, nextId, clock, boot, served, deleted >>

\* the handler sends its response (status st, redirect target, JSON rows)
\* from its try block or from its catch block (ex), and its locals die
Answer(p, st, target, rows, ex) ==
  /\ pc' = [pc EXCEPT ![p] = "done"]
  /\ resp' = [resp EXCEPT ![p] = st]
  /\ loc' = [loc EXCEPT ![p] = target]
  /\ sent' = [sent EXCEPT ![p] = rows]
  /\ threw' = [threw EXCEPT ![p] = ex]
  /\ local' = [local EXCEPT ![p] = NoLocals]
  /\ readId' = [readId EXCEPT ![p] = IF ex THEN @ ELSE 0]

\* res.status(st)...; return
Respond(p, st, target) == Answer(p, st, target, << >>, FALSE)

\* the awaited statement throws err: the catch block answers
Throw(p, err) == Answer(p, CatchStatus(err), "", << >>, TRUE)

\* the handler issues a statement and awaits it at label l with locals v
Await(p, l, v) ==
  /\ pc' = [pc EXCEPT ![p] = l]
  /\ local' = [local EXCEPT ![p] = v]
  /\ resp' = [resp EXCEPT ![p] = 0]
  /\ loc' = [loc EXCEPT ![p] = ""]
  /\ sent' = [sent EXCEPT ![p] = << >>]
  /\ threw' = [threw EXCEPT ![p] = FALSE]

\* values NOW() can return: time stands still or has advanced since it was
\* read last
Now == { t \in {clock, clock + 1} : t <= MaxClock }

(* ------------------------ POST /api/links ------------------------------ *)
\* lines 106-142: validation, then the first SELECT is issued
CreateStart(p, r) ==
  /\ Receive(p, r, "create")
  /\ LET url == r.body.url
         customCode == r.body.code
     IN IF UrlInvalid(url)
        THEN /\ Respond(p, 400, "")
        ELSE IF TruthyCode(customCode)
        THEN IF ~CodeRegexTest(customCode.s)
             THEN /\ Respond(p, 400, "")
             ELSE /\ Await(p, "check", Locals(url, customCode, <<>>, 0, ""))
                  /\ readId' = [readId EXCEPT ![p] = 0]
        ELSE /\ Await(p, "gen", Locals(url, customCode, <<>>, 0, ""))
             /\ readId' = [readId EXCEPT ![p] = 0]

\* lines 126-133 and 156: the pre-check SELECT of a custom code returns
CreateCheck(p) ==
  /\ pc[p] = "check"
  /\ LET customCode == local[p].customCode.s
         rowCount == Cardinality(SelectByCode(store, customCode))
     IN IF rowCount > 0
        THEN /\ Respond(p, 409, "")
        ELSE /\ Await(p, "insert", [local[p] EXCEPT !.code = customCode])
             /\ UNCHANGED readId
  /\ UNCHANGED << boot, workload, store, nextId, clock, req, nreq, quiet, served, deleted >>

\* the loop test written i <= 10
LoopTest_Le(i) == i <= MaxAttempts

\* for (let i = 0; i < 10; i++): the test made before an iteration
LoopTest(i) == i < MaxAttempts

\* lines 137-156: one iteration of the generation loop.  The candidate is
\* drawn here, when its SELECT executes, instead of when the SELECT is issued:
\* the draw reads no shared state and nothing reads the candidate in between.
CreateGen(p) ==
  /\ pc[p] = "gen"
  /\ \E rnd \in RandomDraws :
       LET code == generateCode(rnd)
           rowCount == Cardinality(SelectByCode(store, code))
       IN IF rowCount = 0
          THEN Await(p, "insert", [local[p] EXCEPT !.code = code])
          ELSE IF LoopTest(local[p].i + 1)
          THEN Await(p, "gen", [local[p] EXCEPT !.i = @ + 1])
          ELSE Respond(p, 500, "")
  /\ readId' = [readId EXCEPT ![p] = 0]
  /\ UNCHANGED << boot, workload, store, nextId, clock, req, nreq, quiet, served, deleted >>

\* lines 156-169: the INSERT returns or throws
CreateInsert(p) ==
  /\ pc[p] = "insert"
  /\ nextId' = nextId + 1
  /\ IF UniqueOk(store, local[p].code)
     THEN /\ \E now \in Now :
               /\ store' = InsertRow(store, nextId, local[p].code, local[p].url.s, now)
               /\ clock' = now
          /\ Respond(p, 201, "")
     ELSE /\ store' = store
          /\ clock' = clock
          /\ Throw(p, IF Len(local[p].code) <= 8
                         THEN "unique_violation"
                         ELSE "string_data_right_truncation")
  /\ UNCHANGED << boot, workload, req, nreq, quiet, served, deleted >>

(* --------------------------- GET /api/links ---------------------------- *)
\* lines 84-97: the query is built and issued
ListStart(p, r) ==
  /\ Receive(p, r, "list")
  /\ LET search == r.query.search
     IN Await(p, "list",
              [NoLocals EXCEPT !.params =
                 IF TruthyCode(search) THEN << <<"%">> \o search.s \o <<"%">> >> ELSE << >>])
  /\ readId' = [readId EXCEPT ![p] = 0]

\* lines 97-98: the SELECT returns and its rows are sent
ListExec(p) ==
  /\ pc[p] = "list"
  /\ \E rows \in SelectList(store, local[p].params) : Answer(p, 200, "", rows, FALSE)
  /\ UNCHANGED << boot, workload, store, nextId, clock, req, nreq, quiet, served, deleted >>

(* ---------------------- DELETE /api/links/:code ------------------------ *)
\* lines 173-179: the DELETE is issued
DeleteStart(p, r) ==
  /\ Receive(p, r, "delete")
  /\ Await(p, "delete", [NoLocals EXCEPT !.code = r.path[3]])
  /\ readId' = [readId EXCEPT ![p] = 0]

\* lines 177-189: the DELETE returns
DeleteExec(p) ==
  /\ pc[p] = "delete"
  /\ LET code == local[p].code
         rowCount == Cardinality(SelectByCode(store, code))
         hit == rowCount > 0 /\ code \in StoredCodes
     IN /\ store' = DeleteByCode(store, code)
        /\ deleted' = IF hit THEN [deleted EXCEPT ![code] = TRUE] ELSE deleted
        /\ served' = IF hit THEN [served EXCEPT ![code] = 0] ELSE served
        /\ IF rowCount = 0 THEN Respond(p, 404, "") ELSE Respond(p, 200, "")
  /\ UNCHANGED << boot, workload, nextId, clock, req, nreq, quiet >>

(* -------------------------- GET /stats/:code --------------------------- *)
\* lines 193-200: the SELECT is issued
StatsStart(p, r) ==
  /\ Receive(p, r, "stats")
  /\ Await(p, "stats", [NoLocals EXCEPT !.code = r.path[2]])
  /\ readId' = [readId EXCEPT ![p] = 0]

\* lines 197-213: the SELECT returns
StatsExec(p) ==
  /\ pc[p] = "stats"
  /\ IF SelectByCode(store, local[p].code) = {}
     THEN Respond(p, 404, "")
     ELSE Respond(p, 200, "")
  /\ UNCHANGED << boot, workload, store, nextId, clock, req, nreq, quiet, served, deleted >>

(* ----------------------------- GET /health ----------------------------- *)
Health(p, r) ==
  /\ Receive(p, r, "health")
  /\ Respond(p, 200, "")

(* ------------------------------ GET /:code ----------------------------- *)
\* lines 232-244: reserved words are refused, otherwise the SELECT is issued
RedirectStart(p, r) ==
  /\ Receive(p, r, "redirect")
  /\ LET code == r.path[1]
     IN IF Reserved(code)
        THEN /\ Respond(p, 404, "")
        ELSE /\ Await(p, "read", [NoLocals EXCEPT !.code = code])
             /\ readId' = [readId EXCEPT ![p] = 0]

\* lines 241-254: the SELECT returns; the UPDATE is issued when a row was found
RedirectRead(p) ==
  /\ pc[p] = "read"
  /\ IF SelectByCode(store, local[p].code) = {}
     THEN /\ Respond(p, 404, "")
     ELSE /\ \E r \in SelectByCode(store, local[p].code) :
               /\ Await(p, "update", [local[p] EXCEPT !.rows = r.url])
               /\ readId' = [readId EXCEPT ![p] = r.id]
  /\ UNCHANGED << boot, workload, store, nextId, clock, req, nreq, quiet, served, deleted >>

\* lines 251-256: the UPDATE returns; the handler redirects to the URL it read
RedirectUpdate(p) ==
  /\ pc[p] = "update"
  /\ LET code == local[p].code
     IN /\ \E now \in Now :
             /\ store' = UpdateClicks(store, code, now)
             /\ clock' = now
        /\ served' = IF code \in StoredCodes /\ ~deleted[code]
                     THEN [served EXCEPT ![code] = @ + 1] ELSE served
  /\ Respond(p, 302, local[p].rows)
  /\ UNCHANGED << boot, workload, nextId, req, nreq, quiet, deleted >>

(* ----------------------------------------------------------------------- *)
Next ==
  \/ \E p \in Procs, r \in workload : CreateStart(p, r)
  \/ \E p \in Procs : CreateCheck(p)
  \/ \E p \in Procs : CreateGen(p)
  \/ \E p \in Procs : CreateInsert(p)
  \/ \E p \in Procs, r \in workload : ListStart(p, r)
  \/ \E p \in Procs : ListExec(p)
  \/ \E p \in Procs, r \in workload : DeleteStart(p, r)
  \/ \E p \in Procs : DeleteExec(p)
  \/ \E p \in Procs, r \in workload : StatsStart(p, r)
  \/ \E p \in Procs : StatsExec(p)
  \/ \E p \in Procs, r \in workload : Health(p, r)
  \/ \E p \in Procs, r \in workload : RedirectStart(p, r)
  \/ \E p \in Procs : RedirectRead(p)
  \/ \E p \in Procs : RedirectUpdate(p)

Spec == Init /\ [][Next]_vars

(* ------------------------- failing statements ------------------------- *)
\* labels at which a handler awaits a statement
Awaited == { "list", "check", "gen", "insert", "delete", "stats", "read", "update" }

\* a statement awaited outside the try block: its rejection is not caught and
\* the request is never answered
StatementFails_Uncaught(p) ==
  /\ pc[p] \in Awaited
  /\ pc' = [pc EXCEPT ![p] = "hung"]
  /\ UNCHANGED << boot, workload, store, nextId, clock, req, local, resp, loc, nreq,
                  sent, threw, readId, quiet, served, deleted >>

\* a redirect whose UPDATE is issued without await: its failure goes unnoticed
StatementFails_UpdateUnawaited(p) ==
  /\ pc[p] \in Awaited
  /\ IF pc[p] = "update"
     THEN Respond(p, 302, local[p].rows)
     ELSE Throw(p, "connection_failure")
  /\ UNCHANGED << boot, workload, store, nextId, clock, req, nreq, quiet, served, deleted >>

\* pool.query rejects (connection lost, timeout, server error): the statement
\* has no effect and the handler's catch block answers
StatementFails(p) ==
  /\ pc[p] \in Awaited
  /\ Throw(p, "connection_failure")
  /\ UNCHANGED << boot, workload, store, nextId, clock, req, nreq, quiet, served, deleted >>

\* the service with a storage layer that can fail
NextF ==
  \/ Next
  \/ \E p \in Procs : StatementFails(p)

SpecF == Init /\ [][NextF]_vars

\* activation p's awaited statement returns or fails and the handler runs on
Continue(p) ==
  \/ ListExec(p)
  \/ CreateCheck(p)
  \/ CreateGen(p)
  \/ CreateInsert(p)
  \/ DeleteExec(p)
  \/ StatsExec(p)
  \/ RedirectRead(p)
  \/ RedirectUpdate(p)
  \/ StatementFails(p)

\* the same service, with every awaited statement eventually returning or
\* failing
SpecL == Init /\ [][NextF]_vars /\ \A p \in Procs : WF_vars(Continue(p))

\* request r is received and handed to its handler in activation p
Serve(p, r) ==
  \/ CreateStart(p, r)
  \/ ListStart(p, r)
  \/ DeleteStart(p, r)
  \/ StatsStart(p, r)
  \/ Health(p, r)
  \/ RedirectStart(p, r)

(* ------------------------------ startup ------------------------------- *)
\* lines 53 and 265: initDb() is called without await and app.listen follows
\* at once: the process accepts requests while CREATE TABLE is pending
InitB ==
  /\ workload \in Workloads
  /\ boot \in {"pending", "pending_new"}
  /\ store \in (IF boot = "pending" THEN InitialStores ELSE { {} })
  /\ nextId = (IF boot = "pending" THEN 3 ELSE 1)
  /\ clock = 0
  /\ pc = [p \in Procs |-> "idle"]
  /\ req = [p \in Procs |-> NoReq]
  /\ local = [p \in Procs |-> NoLocals]
  /\ resp = [p \in Procs |-> 0]
  /\ loc = [p \in Procs |-> ""]
  /\ nreq = 0
  /\ sent = [p \in Procs |-> << >>]
  /\ threw = [p \in Procs |-> FALSE]
  /\ readId = [p \in Procs |-> 0]
  /\ quiet = [p \in Procs |-> FALSE]
  /\ served = [c \in StoredCodes |-> 0]
  /\ deleted = [c \in StoredCodes |-> FALSE]

\* a statement on table links can succeed
TableExists == boot # "pending_new"

\* lines 36-46: CREATE TABLE IF NOT EXISTS returns
InitDbReturns ==
  /\ boot \in {"pending", "pending_new"}
  /\ boot' = "ready"
  /\ UNCHANGED << workload, store, nextId, clock, pc, req, local, resp, loc, nreq,
                  sent, threw, readId, quiet, served, deleted >>

\* lines 47-49: it throws and process.exit(1) ends the process with all its
\* handlers
InitDbFails ==
  /\ boot \in {"pending", "pending_new"}
  /\ boot' = "exited"
  /\ pc' = [p \in Procs |-> "exited"]
  /\ UNCHANGED << workload, store, nextId, clock, req, local, resp, loc, nreq,
                  sent, threw, readId, quiet, served, deleted >>

\* the service from the start of the process, on a storage layer that can fail
NextB ==
  \/ InitDbReturns
  \/ InitDbFails
  \/ \E p \in Procs, r \in workload : ListStart(p, r)
  \/ \E p \in Procs, r \in workload : CreateStart(p, r)
  \/ \E p \in Procs, r \in workload : DeleteStart(p, r)
  \/ \E p \in Procs, r \in workload : StatsStart(p, r)
  \/ \E p \in Procs, r \in workload : Health(p, r)
  \/ \E p \in Procs, r \in workload : RedirectStart(p, r)
  \/ \E p \in Procs : TableExists /\ ListExec(p)
  \/ \E p \in Procs : TableExists /\ CreateCheck(p)
  \/ \E p \in Procs : TableExists /\ CreateGen(p)
  \/ \E p \in Procs : TableExists /\ CreateInsert(p)
  \/ \E p \in Procs : TableExists /\ DeleteExec(p)
  \/ \E p \in Procs : TableExists /\ StatsExec(p)
  \/ \E p \in Procs : TableExists /\ RedirectRead(p)
  \/ \E p \in Procs : TableExists /\ RedirectUpdate(p)
  \/ \E p \in Procs : StatementFails(p)

SpecB == InitB /\ [][NextB]_vars

\* the step is the reception of request r by activation p
Receives(p, r) == nreq' = nreq + 1 /\ req'[p] = r /\ Serve(p, r)

\* activation p takes the step that executes the statement it awaits at l
Executes(p, l) == pc[p] = l /\ (pc'[p] # l \/ local'[p] # local[p])

TypeOK ==
  /\ \A r \in store : r.code \in StoredCodes /\ r.clicks \in 0..MaxReqs
  /\ nreq \in 0..MaxReqs
  /\ clock \in 0..MaxClock

(* ============================== claims ================================= *)

\* C1: in every reachable state no two stored links have the same code,
\* whatever the interleaving of create, delete and redirect requests.
C1_UniqueCodes ==
  \A r1 \in store : \A r2 \in store : r1.code = r2.code => r1 = r2

\* two creators of one custom code both passed the pre-check (a create
\* whose pre-check finds the code is answered 409): the first INSERT stored
\* the link and the second was rejected by the constraint
C1_Witness ==
  \E p \in Procs : \E q \in Procs \ {p} :
    /\ pc[p] = "done" /\ resp[p] = 201
    /\ pc[q] = "done" /\ resp[q] = 500
    /\ req[p].method = "POST" /\ req[q].method = "POST"
    /\ TruthyCode(req[p].body.code) /\ req[q].body.code = req[p].body.code
    /\ Cardinality(SelectByCode(store, req[p].body.code.s)) = 1

\* C2: when two creators of the same valid custom code have both passed the
\* pre-check before either inserts, the INSERT that runs first stores the
\* link and is answered 201 while the other is still pending, and an INSERT
\* that finds the code stored fails, is answered 500 (not 409) and changes
\* nothing.
C2_RaceOutcome ==
  [][ \A p \in Procs :
        (Executes(p, "insert") /\ TruthyCode(local[p].customCode)) =>
          IF SelectByCode(store, local[p].code) = {}
          THEN /\ resp'[p] = 201
               /\ Cardinality(SelectByCode(store', local[p].code)) = 1
               /\ \A q \in Procs \ {p} :
                    (pc[q] = "insert" /\ local[q].code = local[p].code) =>
                      /\ pc'[q] = "insert"
                      /\ SelectByCode(store', local[q].code) # {}
          ELSE /\ resp'[p] = 500
               /\ store' = store ]_vars

\* the loser of such a race has been answered 500 after the winner's 201,
\* and the stored link has the winner's URL
C2_Witness ==
  \E p \in Procs : \E q \in Procs \ {p} :
    /\ pc[p] = "done" /\ resp[p] = 201 /\ pc[q] = "done" /\ resp[q] = 500
    /\ req[p].body.code = JsStr(abcd1234) /\ req[q].body.code = JsStr(abcd1234)
    /\ req[p].body.url # req[q].body.url
    /\ \A r \in store : r.code = abcd1234 => JsStr(r.url) = req[p].body.url

\* C3: a create with a valid URL and a custom code matching the pattern that
\* runs alone while the code is not stored is answered 201 and stores the
\* link; a create with a stored code is answered 409 and changes nothing.
C3_CreateThenConflict ==
  [][ \A p \in Procs :
        /\ \A u \in {JsStr(UrlX), JsStr(UrlY)} :
           \A c \in {JsStr(abc123), JsStr(abcd1234), JsStr(health)} :
             Receives(p, Post(u, c)) => pc'[p] = "check" /\ store' = store
        /\ (Executes(p, "check") /\ SelectByCode(store, local[p].customCode.s) = {}) =>
             pc'[p] = "insert" /\ store' = store
        /\ (Executes(p, "check") /\ SelectByCode(store, local[p].customCode.s) # {}) =>
             pc'[p] = "done" /\ resp'[p] = 409 /\ store' = store
        /\ (Executes(p, "insert") /\ quiet[p] /\ TruthyCode(local[p].customCode)) =>
             /\ resp'[p] = 201
             /\ store' = store \cup
                  { Row(nextId, local[p].customCode.s, local[p].url.s, 0, NULL, clock') }
             /\ store' # store ]_vars

\* a create with the code of a stored link and another URL ran alone and was
\* answered 409, the link still stored with its URL
C3_Witness ==
  \E p \in Procs :
    /\ pc[p] = "done" /\ resp[p] = 409 /\ quiet[p]
    /\ req[p].body.code = JsStr(abc123)
    /\ \E r \in store : r.code = abc123 /\ JsStr(r.url) # req[p].body.url

\* C4: while a link has never been deleted, its clicks equals the number of
\* redirects to its code answered 302, in any interleaving of their SELECT
\* and UPDATE statements; last_clicked changes only when such an UPDATE runs
\* and is then the time of that UPDATE.
C4_ClicksCountRedirects ==
  /\ [](\A r \in store : ~deleted[r.code] => r.clicks = served[r.code])
  /\ [][ \A r \in store : \A r2 \in store' :
           (r2.id = r.id /\ r2.last_clicked # r.last_clicked) =>
             /\ r2.last_clicked = clock'
             /\ \E p \in Procs : Executes(p, "update") /\ local[p].code = r.code ]_vars
  /\ [][ \A p \in Procs : Executes(p, "update") =>
           \A r2 \in SelectByCode(store', local[p].code) : r2.last_clicked = clock' ]_vars

\* two redirects to one link overlapped (both had read before either
\* updated) and both were answered: the link counts 2 clicks
C4_Witness ==
  /\ \E p \in Procs : \E q \in Procs \ {p} :
       /\ pc[p] = "done" /\ resp[p] = 302 /\ ~quiet[p]
       /\ pc[q] = "done" /\ resp[q] = 302 /\ ~quiet[q]
       /\ req[p] = Get(abc123) /\ req[q] = Get(abc123)
  /\ \E r \in store : r.clicks = 2 /\ served[r.code] = 2 /\ ~deleted[r.code]

\* C5: every redirect answered 302 increments by one the clicks of the
\* stored link whose URL it read and redirects to, whatever ran between
\* its SELECT and its UPDATE.
C5_EveryRedirectCounted ==
  [][ \A p \in Procs :
        (Executes(p, "update") /\ resp'[p] = 302) =>
          \E r \in store :
            /\ r.id = readId[p]
            /\ r.url = loc'[p]
            /\ \E r2 \in store' : r2.id = r.id /\ r2.clicks = r.clicks + 1 ]_vars

\* C6: in every reachable state, for every stored link, last_clicked is
\* null if and only if clicks is 0.
C6_NullIffZero ==
  \A r \in store : (r.last_clicked = NULL) <=> (r.clicks = 0)

\* a link has been clicked, at a time after its creation
C6_Witness ==
  \E r \in store : r.clicks > 0 /\ r.last_clicked > r.created_at

\* C7 as claimed: a GET of /api, /stats or /health is always answered 404
\* and leaves the store unchanged.
C7_ReservedAlways404 ==
  [][ \A p \in Procs : \A c \in {api, stats, health} :
        Receives(p, Get(c)) => pc'[p] = "done" /\ resp'[p] = 404 /\ store' = store ]_vars

\* C7 amended: a GET of /api or /stats is answered 404 by the redirect
\* handler; a GET of /health is answered 200 by the health route, which is
\* registered first; each is answered without a statement and leaves the
\* store unchanged, whether or not a link with the code is stored.
C7_ReservedNeverRedirect ==
  [][ \A p \in Procs :
        /\ \A c \in {api, stats} :
             Receives(p, Get(c)) =>
               pc'[p] = "done" /\ resp'[p] = 404 /\ store' = store
        /\ Receives(p, Get(health)) =>
             pc'[p] = "done" /\ resp'[p] = 200 /\ store' = store ]_vars

\* a link with code health is stored, unclicked, and a GET of /health has
\* been answered by the health route
C7_Witness ==
  /\ \E r \in store : r.code = health /\ r.clicks = 0 /\ r.last_clicked = NULL
  /\ \E p \in Procs : pc[p] = "done" /\ req[p] = Get(health) /\ resp[p] = 200

\* C8: a DELETE of a stored code is answered 200 and removes exactly that
\* link; of a code not stored, 404 and nothing changes; while the code is
\* not stored a stats lookup and a redirect for it are answered 404, and
\* only a create answered 201 stores it again.
C8_DeleteRemoves ==
  [][ /\ \A p \in Procs :
           LET c == local[p].code IN
           /\ Executes(p, "delete") =>
                IF \E r \in store : r.code = c
                THEN /\ resp'[p] = 200
                     /\ store' = { r \in store : r.code # c }
                     /\ Cardinality(store') = Cardinality(store) - 1
                ELSE resp'[p] = 404 /\ store' = store
           /\ (Executes(p, "stats") /\ ~\E r \in store : r.code = c) =>
                resp'[p] = 404 /\ store' = store
           /\ (Executes(p, "read") /\ ~\E r \in store : r.code = c) =>
                pc'[p] = "done" /\ resp'[p] = 404 /\ store' = store
      /\ \A c \in StoredCodes :
           ((~\E r \in store : r.code = c) /\ (\E r \in store' : r.code = c)) =>
             \E p \in Procs :
               Executes(p, "insert") /\ local[p].code = c /\ resp'[p] = 201 ]_vars

\* the link was deleted, and a stats lookup that ran alone afterwards was
\* answered 404
C8_Witness ==
  /\ deleted[abc123] /\ ~\E r \in store : r.code = abc123
  /\ \E p \in Procs :
       pc[p] = "done" /\ req[p] = GetStats(abc123) /\ resp[p] = 404

\* C9: a create whose URL is missing or not well-formed is answered 400
\* whatever its custom code, issues no statement and leaves the store
\* unchanged.
C9_BadUrl400 ==
  [][ \A p \in Procs :
        \A u \in {JsUndefined, JsStr(""), JsStr("not a url")} : \A c \in CodeInputs :
          Receives(p, Post(u, c)) =>
            pc'[p] = "done" /\ resp'[p] = 400 /\ store' = store ]_vars

\* a create with a malformed URL and a code that is stored was answered 400
C9_Witness ==
  \E p \in Procs :
    /\ pc[p] = "done" /\ resp[p] = 400
    /\ req[p] = Post(JsStr("not a url"), JsStr(abc123))
    /\ \E r \in store : r.code = abc123

\* C10 as claimed: a create with a valid URL and a supplied custom code that
\* does not match the pattern, the empty string included, is answered 400
\* and inserts no link.
C10_BadCode400 ==
  [][ \A p \in Procs :
        \A u \in {JsStr(UrlX), JsStr(UrlY)} :
        \A c \in {JsStr(<<>>), JsStr(abc12), JsStr(abcdefgh9), JsStr(abc_12)} :
          Receives(p, Post(u, c)) =>
            pc'[p] = "done" /\ resp'[p] = 400 /\ store' = store ]_vars

\* C10 amended: a create with a valid URL and a non-empty custom code that
\* does not match the pattern is answered 400 without a statement and
\* inserts no link; an empty-string code counts as not supplied, and the
\* create enters the generation loop, whose candidates have 6 characters.
C10_NonEmptyBadCode400 ==
  [][ \A p \in Procs :
        \A u \in {JsStr(UrlX), JsStr(UrlY)} :
        /\ \A c \in {JsStr(abc12), JsStr(abcdefgh9), JsStr(abc_12)} :
             Receives(p, Post(u, c)) =>
               pc'[p] = "done" /\ resp'[p] = 400 /\ store' = store
        /\ Receives(p, Post(u, JsStr(<<>>))) =>
             pc'[p] = "gen" /\ resp'[p] = 0 /\ store' = store
        /\ (Executes(p, "gen") /\ pc'[p] = "insert") => Len(local'[p].code) = 6 ]_vars

\* a create with a valid URL and a 9-character code was answered 400 while
\* another link is stored
C10_Witness ==
  \E p \in Procs :
    /\ pc[p] = "done" /\ req[p] = Post(JsStr(UrlX), JsStr(abcdefgh9)) /\ resp[p] = 400
    /\ Cardinality(store) = 1

\* C11: a create with a valid URL and no custom code that is answered 201
\* returns a code of exactly 6 alphanumeric characters, and right after its
\* INSERT exactly one stored link has that code: the new row, with the
\* submitted URL, whatever other requests are in flight.
C11_GeneratedCode ==
  [][ \A p \in Procs :
        (Executes(p, "insert") /\ ~TruthyCode(local[p].customCode) /\ resp'[p] = 201) =>
          LET code == local[p].code IN
          /\ Len(code) = 6
          /\ \A k \in 1..Len(code) : code[k] \in Alnum
          /\ JsStr(local[p].url.s) = req[p].body.url
          /\ ~\E r \in store : r.id = nextId
          /\ SelectByCode(store', code) =
               { Row(nextId, code, local[p].url.s, 0, NULL, clock') } ]_vars

\* a create without custom code found its first candidate stored, drew
\* another and stored the link under it; both links are stored
C11_Witness ==
  \E p \in Procs :
    /\ pc[p] = "done" /\ resp[p] = 201 /\ req[p] = Post(JsStr(UrlX), JsUndefined)
    /\ \E r \in store : r.id >= 3 /\ r.url = UrlX /\ r.code \in {abc123, health}
    /\ Cardinality(store) = 2

\* str contains sub as a literal substring, without regard to case
Contains(str, sub) ==
  \E i \in 0..(Len(str) - Len(sub)) :
    \A k \in 1..Len(sub) : Lower(str[i + k]) = Lower(sub[k])

\* the stored links whose code or url contains filter f literally (all of
\* them when f is absent or empty)
Containing(s, f) ==
  IF TruthyCode(f)
  THEN { r \in s : Contains(r.code, f.s) \/ Contains(UrlText(r.url), f.s) }
  ELSE s

\* C12: for every store and every filter string, list/search returns
\* exactly the stored links whose code or url contains the filter as a
\* case-insensitive literal substring (all links when the filter is absent
\* or empty), ordered by creation time descending, and leaves the store
\* unchanged.
C12_ListContaining ==
  [][ \A p \in Procs :
        Executes(p, "list") =>
          LET want == Containing(store, req[p].query.search)
              n == Cardinality(want)
          IN /\ resp'[p] = 200
             /\ Len(sent'[p]) = n
             /\ { sent'[p][k] : k \in 1..n } = { Columns(r) : r \in want }
             /\ \A i \in 1..n : \A j \in 1..n :
                  (i < j) => sent'[p][i].created_at >= sent'[p][j].created_at
             /\ store' = store ]_vars

\* C13: a create with a valid URL and no custom code draws at most 10
\* candidates, each checked against the store, and goes on to insert the
\* first one found unused; when the 10th is found in use too it is answered
\* 500 and inserts nothing; there is no 11th draw.
C13_AtMostTenDraws ==
  [][ \A p \in Procs :
        Executes(p, "gen") =>
          /\ local[p].i < MaxAttempts
          /\ store' = store
          /\ (pc'[p] = "insert") =>
               /\ SelectByCode(store, local'[p].code) = {}
               /\ \E rnd \in RandomDraws : local'[p].code = generateCode(rnd)
          /\ (pc'[p] # "insert") =>
               \E rnd \in RandomDraws : SelectByCode(store, generateCode(rnd)) # {}
          /\ (pc'[p] = "gen") =>
               local'[p].i = local[p].i + 1 /\ local'[p].i < MaxAttempts
          /\ (pc'[p] = "done") =>
               local[p].i = MaxAttempts - 1 /\ resp'[p] = 500 /\ ~threw'[p]
          /\ pc'[p] \in {"insert", "gen", "done"} ]_vars

\* every candidate a create without custom code can draw is stored: it was
\* answered 500 by the loop's exit and the store is as it was
C13_Witness ==
  \E p \in Procs :
    /\ pc[p] = "done" /\ resp[p] = 500 /\ ~threw[p]
    /\ req[p] = Post(JsStr(UrlX), JsUndefined)
    /\ store = { Row(1, abc123, UrlX, 0, NULL, 0), Row(2, health, UrlX, 0, NULL, 0) }

\* activation p takes a step of a create: its reception or one of its
\* statements
CreateStep(p) ==
  \/ \E r \in workload : r.method = "POST" /\ Receives(p, r)
  \/ Executes(p, "check")
  \/ Executes(p, "gen")
  \/ Executes(p, "insert")

\* C14: a create is answered 201 if and only if its INSERT added exactly
\* one link, and that link has the requested url, clicks = 0 and
\* last_clicked = null; no other step of a create, and no create answered
\* 400, 409 or 500, changes the store.
C14_CreatedIffInserted ==
  [][ \A p \in Procs :
        CreateStep(p) =>
          LET added == store' \ store IN
          /\ store \subseteq store'
          /\ (resp'[p] = 201) <=> (pc[p] = "insert" /\ Cardinality(added) = 1)
          /\ \A r \in added :
               /\ JsStr(r.url) = req[p].body.url
               /\ r.code = local[p].code
               /\ r.clicks = 0
               /\ r.last_clicked = NULL
          /\ (resp'[p] \in {400, 409, 500}) => store' = store
          /\ resp'[p] \in {0, 201, 400, 409, 500} ]_vars

\* one create stored its link and was answered 201; the INSERT of another,
\* of a code nobody stored, failed: it was answered 500 and stored nothing
C14_Witness ==
  \E p \in Procs : \E q \in Procs \ {p} :
    /\ pc[p] = "done" /\ resp[p] = 201 /\ req[p] = Post(JsStr(UrlX), JsStr(abc123))
    /\ \E r \in store : r.code = abc123 /\ r.url = UrlX /\ r.clicks = 0 /\ r.id >= 3
    /\ pc[q] = "done" /\ resp[q] = 500 /\ threw[q]
    /\ req[q] = Post(JsStr(UrlY), JsStr(abcd1234))
    /\ ~\E r \in store : r.code = abcd1234

\* C15: while a link is stored its code, url and created_at never change;
\* list/search, stats and health change nothing in the store; a redirect
\* changes only clicks and last_clicked of the links with the requested
\* code, only in its UPDATE, which runs only when its SELECT found the
\* code; a redirect answered 404 changes nothing.
C15_Frame ==
  [][ /\ \A r \in store : \A r2 \in store' :
           (r2.id = r.id) =>
             r2.code = r.code /\ r2.url = r.url /\ r2.created_at = r.created_at
      /\ \A p \in Procs :
           /\ (\E r \in workload : r.method = "GET" /\ Receives(p, r)) => store' = store
           /\ (Executes(p, "list") \/ Executes(p, "stats") \/ Executes(p, "read")) =>
                store' = store
           /\ Executes(p, "update") =>
                /\ (store' # store) => (readId[p] # 0 /\ resp'[p] = 302)
                /\ { r.id : r \in store' } = { r.id : r \in store }
                /\ \A r \in store : (r.code # local[p].code) => r \in store'
           /\ (pc[p] \in {"read", "update"} /\ resp'[p] = 404) => store' = store ]_vars

\* a redirect to one link was answered 302 and a stats lookup 200: that
\* link has its code, url and creation time and one click, the other link
\* is as it was
C15_Witness ==
  /\ \E p \in Procs : pc[p] = "done" /\ req[p] = Get(abc123) /\ resp[p] = 302
  /\ \E p \in Procs : pc[p] = "done" /\ req[p] = GetStats(abc123) /\ resp[p] = 200
  /\ \E t \in 0..MaxClock :
       store = { Row(1, abc123, UrlX, 1, t, 0), Row(2, health, UrlX, 0, NULL, 0) }

\* C16: from its insertion to its deletion the clicks of a stored link is a
\* non-negative integer that no step of any request decreases; a step
\* leaves it or adds one.
C16_ClicksMonotone ==
  /\ [](\A r \in store : r.clicks \in Nat)
  /\ [][ \A r \in store : \A r2 \in store' :
           (r2.id = r.id) => (r2.clicks = r.clicks \/ r2.clicks = r.clicks + 1) ]_vars

\* a link was clicked once; the UPDATE of a second redirect to it failed and
\* left the count
C16_Witness ==
  /\ \E p \in Procs : pc[p] = "done" /\ req[p] = Get(abc123) /\ resp[p] = 302
  /\ \E p \in Procs : pc[p] = "done" /\ req[p] = Get(abc123) /\ resp[p] = 500 /\ threw[p]
  /\ \E r \in store : r.code = abc123 /\ r.clicks = 1

\* C17: in every reachable state every stored link has a code of 6 to 8
\* alphanumeric characters and a non-empty url that passes the
\* well-formed-URL check; no link with code api or stats is stored, while a
\* create with custom code health can store a link with that code.
C17_StoredShape ==
  \A r \in store :
    /\ Len(r.code) \in 6..8
    /\ \A k \in 1..Len(r.code) : r.code[k] \in Alnum
    /\ r.url # ""
    /\ isUrl(JsStr(r.url))
    /\ r.code # api /\ r.code # stats

\* creates with the custom codes api and stats were answered 400, and a
\* create with custom code health stored its link
C17_Witness ==
  /\ \E p \in Procs :
       pc[p] = "done" /\ resp[p] = 400 /\ req[p].method = "POST"
         /\ req[p].body.code \in {JsStr(api), JsStr(stats)}
  /\ \E p \in Procs :
       pc[p] = "done" /\ resp[p] = 201 /\ req[p] = Post(JsStr(UrlX), JsStr(health))
  /\ \E r \in store : r.code = health /\ r.id >= 3

\* C18: when a statement of a list, create, delete, stats or redirect
\* request fails, the request is answered 500 and has changed nothing in
\* the store; a redirect whose UPDATE fails after its SELECT found the link
\* is answered 500, not 302 (a 302 is sent only past an UPDATE that took
\* effect); no request executes more than one write
\* statement: a write is the last statement of its handler and the
\* statements before it only read.
C18_FailureIs500 ==
  [][ \A p \in Procs :
        /\ (pc[p] \in Awaited /\ threw'[p]) =>
             /\ pc'[p] = "done" /\ resp'[p] = 500 /\ loc'[p] = ""
             /\ store' = store
        /\ (nreq' = nreq + 1) => store' = store
        /\ \A l \in {"list", "check", "gen", "stats", "read"} :
             Executes(p, l) => store' = store
        /\ \A l \in {"insert", "delete", "update"} :
             Executes(p, l) => pc'[p] = "done"
        /\ (Executes(p, "update") /\ resp'[p] = 302) =>
             \A r \in SelectByCode(store, local[p].code) :
               \E r2 \in store' : r2.id = r.id /\ r2.clicks = r.clicks + 1 ]_vars

\* the SELECT of a redirect found the link, its UPDATE failed: the redirect
\* was answered 500 without a target and the link is unclicked
C18_Witness ==
  \E p \in Procs :
    /\ pc[p] = "done" /\ req[p] = Get(abc123) /\ resp[p] = 500 /\ threw[p]
    /\ readId[p] = 1 /\ loc[p] = ""
    /\ Row(1, abc123, UrlX, 0, NULL, 0) \in store

\* C19: when every statement eventually returns or fails, every request is
\* eventually answered; a handler answers exactly when it stops and does
\* nothing more until its activation is handed another request; a create
\* issues at most 10 lookups (one with a custom code) followed by at most
\* one INSERT.
C19_AnsweredOnce ==
  /\ \A p \in Procs : (pc[p] \in Awaited) ~> (pc[p] = "done")
  /\ [](\A p \in Procs : (pc[p] = "done") <=> (resp[p] # 0))
  /\ [][ \A p \in Procs :
           /\ (pc[p] = "done" /\ nreq' = nreq) =>
                /\ pc'[p] = "done" /\ resp'[p] = resp[p]
                /\ loc'[p] = loc[p] /\ sent'[p] = sent[p]
           /\ (pc[p] = "idle" /\ nreq' = nreq) => pc'[p] = "idle"
           /\ Executes(p, "check") => pc'[p] \in {"insert", "done"}
           /\ Executes(p, "gen") =>
                /\ local[p].i < MaxAttempts
                /\ \/ pc'[p] \in {"insert", "done"}
                   \/ pc'[p] = "gen" /\ local'[p].i = local[p].i + 1
           /\ Executes(p, "insert") => pc'[p] = "done" ]_vars

\* a create with an empty custom code found its first candidate stored,
\* drew a second and stored the link; a create with a stored custom code
\* was answered 409; both handlers have stopped
C19_Witness ==
  \E p \in Procs : \E q \in Procs \ {p} :
    /\ pc[p] = "done" /\ resp[p] = 201 /\ req[p] = Post(JsStr(UrlX), JsStr(<<>>))
    /\ pc[q] = "done" /\ resp[q] = 409 /\ req[q] = Post(JsStr(UrlX), JsStr(abc123))
    /\ \E r \in store : r.code = health /\ r.id >= 3

\* activation p issues a statement in this step
Issues(p) == pc'[p] \in Awaited /\ (pc'[p] # pc[p] \/ local'[p] # local[p])

\* C20: no handler issues a statement before initDb has returned, and once
\* initDb has failed the process has ended: no request is received or
\* answered any more.
C20_InitFirst ==
  [][ /\ \A p \in Procs : Issues(p) => boot = "ready"
      /\ (boot = "exited") => (nreq' = nreq /\ resp' = resp /\ pc' = pc) ]_vars
====
